---- MODULE Spec2Model ----
(***************************************************************************)
(* A model of the ratchet compute core: the concat operation (guards,      *)
(* output view, metadata packing, workgroup dispatch planning, generated   *)
(* kernel) and the Executable that records and submits compiled steps.     *)
(*                                                                         *)
(* The module holds several specifications over one set of variables; each *)
(* specification drives one part of the program and leaves the variables   *)
(* of the other parts at their idle values:                                *)
(*   SpecDispatch  calculate_dispatch and the kernel's flat index          *)
(*   SpecExec      Executable::dispatch_operations                         *)
(*   SpecConcat    one Concat through its guards, view, metadata, dispatch *)
(*                 plan and kernel, and the kernel's invocations           *)
(*   SpecUniform   write_metadata calls in sequence on one packer          *)
(*   SpecKey       kernel_key and build_kernel for two kernel requests     *)
(*   SpecUniformFault  write_metadata with member writes that fail         *)
(*   SpecPool      concurrent requests on the pipeline cache               *)
(*   SpecLazy      LazyOp's delegating methods                             *)
(*   SpecNorm      GroupNorm's guards and output view                      *)
(***************************************************************************)
EXTENDS Integers, Sequences, FiniteSets, TLC

VARIABLES
    dst_numel,   \* dst.shape().numel() of the tensor being dispatched
    wgc,         \* the WorkgroupCount calculate_dispatch returned, <<>> before
    ran,         \* workgroup ids <<x, y, z>> of the grid that have executed
    writes       \* <<offset, group_id, local_index>> of every invocation that
                 \* passed the kernel's bounds check and goes on to write

VARIABLES
    exe,         \* the Executable: [steps, uniform_group]
    pc,          \* position of dispatch_operations in its body
    step_i,      \* index (from 1) of the step the loop is at
    bind_j,      \* index (from 0) of the next storage group to bind
    cpass,       \* the open compute pass: [pipeline, bind_groups]
    log,         \* the calls the running dispatch_operations has made
    returned     \* the logs of the calls of dispatch_operations that returned

VARIABLES
    op,          \* the Concat being compiled: [inputs, dim]
    phase,       \* how far its compilation has come
    result,      \* how the compilation ended, "" while it runs
    view,        \* the StorageView compute_view returned, <<>> before
    uniform,     \* the CpuUniform metadata packer: [cursor, members]
    meta_offsets, \* the offsets write_metadata has returned, in call order
    kernel,      \* the KernelSource build_kernel returned, <<>> before
    inv          \* the last kernel invocation that ran, <<>> before

VARIABLES
    pair,        \* two kernel requests [n, dt, workgroup_size]
    built        \* their <<kernel_key, build_kernel>> results, <<>> before

VARIABLES
    fault        \* the member writes (by position in the struct, from 1) that
                 \* failed in the last call of write_metadata

VARIABLES
    cache,       \* the pipeline cache: [entries, holder], the [key, handle]
                 \* entries inserted and the request holding its lock (0: none)
    pipelines,   \* the pipelines the device has built, in order: [key, by]
    requests     \* the concurrent resolve requests: [pc, key, handle] each

VARIABLES
    node,        \* a LazyOp: [variant, srcs, supports_inplace]
    called       \* the last call made on it and its outcome:
                 \* [method, tag, value], method "none" before

VARIABLES
    gn,          \* a GroupNorm: [input, scale, bias, num_groups]
    gn_guards,   \* how its guards ended, "" before they ran
    gn_view      \* the StorageView its compute_view returned, of dtype ""
                 \* before

dispatchVars == <<dst_numel, wgc, ran, writes>>
execVars == <<exe, pc, step_i, bind_j, cpass, log, returned>>
concatVars == <<op, phase, result, view, uniform, meta_offsets, kernel, inv>>
keyVars == <<pair, built>>
faultVars == <<fault>>
poolVars == <<cache, pipelines, requests>>
lazyVars == <<node, called>>
normVars == <<gn, gn_guards, gn_view>>
otherVars == <<faultVars, poolVars, lazyVars, normVars>>

vars == <<dst_numel, wgc, ran, writes,
          exe, pc, step_i, bind_j, cpass, log, returned,
          op, phase, result, view, uniform, meta_offsets, kernel, inv,
          pair, built,
          fault, cache, pipelines, requests, node, called, gn, gn_guards, gn_view>>

\* What an invocation that returns at the bounds check leaves as its offset.
Returned == -1

(***************************************************************************)
(* Bounds of the model.                                                    *)
(***************************************************************************)
\* Destination element counts reach MaxFold * 64 past the point where the
\* folded grid's y exceeds the per-dimension limit.
MaxFold == 1
\* The most steps an Executable holds.
MaxSteps == 2
\* The most calls of dispatch_operations on one Executable.
MaxDispatchCalls == 2
\* The largest size of a dimension of the enumerated input tensors.
MaxDim == 2
\* The kernel is run for destinations of at most this many elements.
MaxKernelNumel == 64
\* The most calls of write_metadata on one packer.
MaxPacked == 2
\* The number of resolve requests that run concurrently.
MaxRequests == 3
\* The most source tensors an op held by a LazyOp has.
MaxSrcs == 2
\* The largest num_groups of the enumerated GroupNorms.
MaxGroups == 3

(***************************************************************************)
(* Idle values: what a specification leaves the other parts' variables at. *)
(***************************************************************************)
IdleDispatch ==
    /\ dst_numel = 0
    /\ wgc = <<>>
    /\ ran = {}
    /\ writes = {}

IdleExec ==
    /\ exe = [steps |-> <<>>, uniform_group |-> <<"uniform", 0, 0>>]
    /\ pc = "idle"
    /\ step_i = 0
    /\ bind_j = 0
    /\ cpass = <<>>
    /\ log = <<>>
    /\ returned = <<>>

IdleConcat ==
    /\ op = [inputs |-> <<>>, dim |-> 0]
    /\ phase = "idle"
    /\ result = ""
    /\ view = <<>>
    /\ uniform = [cursor |-> 0, members |-> <<>>]
    /\ meta_offsets = <<>>
    /\ kernel = <<>>
    /\ inv = <<>>

IdleKey ==
    /\ pair = <<>>
    /\ built = <<>>

IdleFault == fault = {}

IdlePool ==
    /\ cache = [entries |-> {}, holder |-> 0]
    /\ pipelines = <<>>
    /\ requests = <<>>

IdleLazy ==
    /\ node = <<>>
    /\ called = [method |-> "none"]

IdleNorm ==
    /\ gn = <<>>
    /\ gn_guards = ""
    /\ gn_view = [shape |-> <<>>, dt |-> "", strides |-> <<>>]

IdleOther ==
    /\ IdleFault
    /\ IdlePool
    /\ IdleLazy
    /\ IdleNorm

(***************************************************************************)
(* gpu::WorkgroupCount (crates/ratchet-core/src/gpu/workload.rs is not     *)
(* part of the sources at hand; modelled from the specification, 4.5).     *)
(***************************************************************************)
\* The device's maximum number of workgroups in one dimension.  The device
\* value is 65535; the model is scaled so that both folds of the grid are
\* reached by enumerable element counts.
MAX_WGS_PER_DIM == 2

\* WorkgroupCount::div_ceil: the quotient rounded up.
div_ceil(num, div) == (num \div div) + (IF num % div # 0 THEN 1 ELSE 0)

(***************************************************************************)
(* Concat::calculate_dispatch (concat.rs:153-163).                         *)
(***************************************************************************)
calculate_dispatch_floor(numel) ==
    LET x_groups == div_ceil(numel, 64)
    IN  IF x_groups > MAX_WGS_PER_DIM
        THEN <<MAX_WGS_PER_DIM, x_groups \div MAX_WGS_PER_DIM, 1>>
        ELSE <<x_groups, 1, 1>>

calculate_dispatch(numel) ==
    LET x_groups == div_ceil(numel, 64)
    IN  IF x_groups > MAX_WGS_PER_DIM
        THEN <<MAX_WGS_PER_DIM, div_ceil(x_groups, MAX_WGS_PER_DIM), 1>>
        ELSE <<x_groups, 1, 1>>

(***************************************************************************)
(* The head of the generated kernel's main (concat.rs:56-61): the flat     *)
(* destination offset of one invocation and the bounds check.  group_id    *)
(* and num_groups are <<x, y, z>>; the result is the offset the invocation *)
(* goes on to write, or Returned when it stops at the check.              *)
(***************************************************************************)
kernel_dst_offset_nofold(group_id, num_groups, local_index) ==
    LET x_offset == group_id[1] * 64
    IN  (group_id[2] * 64) + x_offset + local_index

kernel_dst_offset(group_id, num_groups, local_index) ==
    LET x_offset == group_id[1] * 64
    IN  (group_id[2] * num_groups[1] * 64) + x_offset + local_index

kernel_head(group_id, num_groups, local_index, numel) ==
    LET dst_offset == kernel_dst_offset(group_id, num_groups, local_index)
    IN  IF dst_offset >= numel THEN Returned ELSE dst_offset

\* The workgroup size the kernel is built with: the number of invocations of
\* one workgroup (the kernel strides workgroups by 64 elements).
WorkgroupInvocations == 64

\* The workgroup ids of a dispatch of count <<x, y, z>>.
Grid(count) ==
    {<<x, y, z>> : x \in 0..(count[1] - 1), y \in 0..(count[2] - 1),
                   z \in 0..(count[3] - 1)}

(***************************************************************************)
(* SpecDispatch: a destination of any element count is planned, and the    *)
(* workgroups of the planned grid execute the kernel's head in any order.  *)
(***************************************************************************)
MaxNumel == 64 * (MAX_WGS_PER_DIM * MAX_WGS_PER_DIM + MaxFold) + 1

InitDispatch ==
    /\ dst_numel \in 0..MaxNumel
    /\ wgc = <<>>
    /\ ran = {}
    /\ writes = {}
    /\ IdleExec
    /\ IdleConcat
    /\ IdleKey
    /\ IdleOther

CalculateDispatch ==
    /\ wgc = <<>>
    /\ wgc' = calculate_dispatch(dst_numel)
    /\ UNCHANGED <<dst_numel, ran, writes>>
    /\ UNCHANGED <<execVars, concatVars, keyVars, otherVars>>

\* One workgroup of the dispatched grid runs: each of its invocations
\* computes its offset and either returns or goes on to write that offset.
RunWorkgroup(g) ==
    /\ wgc # <<>>
    /\ g \in Grid(wgc) \ ran
    /\ writes' = writes \cup
           {<<kernel_head(g, wgc, li, dst_numel), g, li>> :
               li \in {l \in 0..(WorkgroupInvocations - 1) :
                           kernel_head(g, wgc, l, dst_numel) # Returned}}
    /\ ran' = ran \cup {g}
    /\ UNCHANGED <<dst_numel, wgc>>
    /\ UNCHANGED <<execVars, concatVars, keyVars, otherVars>>

NextDispatch ==
    \/ CalculateDispatch
    \/ /\ wgc # <<>>
       /\ \E g \in Grid(wgc) : RunWorkgroup(g)

SpecDispatch == InitDispatch /\ [][NextDispatch]_vars

(***************************************************************************)
(* Executable (executable.rs:10-15) and the CompiledOp steps it holds.     *)
(* A step is [pipeline_handle, storage_groups, offset, workgroup_count];   *)
(* CompiledOp itself is not part of the sources at hand, its accessors are *)
(* the ones dispatch_operations calls.                                     *)
(***************************************************************************)
\* gpu::UNIFORM_ALIGN, the slot size of one step's metadata in the uniform
\* buffer (crates/ratchet-core/src/gpu is not part of the sources at hand).
UNIFORM_ALIGN == 256

\* What compile leaves in a step, apart from its place in the Executable.
StepKinds ==
    [pipeline_handle : 1..2, n_storage : 1..2,
     workgroup_count : {<<1, 1, 1>>, <<2, 3, 1>>}]

\* The i-th step of an Executable compiled from kinds ks: its storage bind
\* groups are its own, its offset is the slot the packer gave it.
StepOf(ks, i) ==
    [pipeline_handle |-> ks[i].pipeline_handle,
     storage_groups  |-> [j \in 1..ks[i].n_storage |-> <<"storage", i, j>>],
     offset          |-> (i - 1) * UNIFORM_ALIGN,
     workgroup_count |-> ks[i].workgroup_count]

Executables ==
    {[steps |-> [i \in DOMAIN ks |-> StepOf(ks, i)], uniform_group |-> <<"uniform", 0, 0>>] :
        ks \in UNION {[1..n -> StepKinds] : n \in 0..MaxSteps}}

\* device.pipeline_resources().get(handle): the pool's pipeline of a handle.
pipeline_resources_get(handle) == <<"pipeline", handle>>

\* executable.rs:36: the index the uniform group is bound at.
uniform_group_index_one(step) == 1

\* The index as a count that is carried over from the calls before.
uniform_group_index_carried(step) == Len(step.storage_groups) + Len(returned)

uniform_group_index(step) == Len(step.storage_groups)

\* executable.rs:39: the counts a step is dispatched with.
dispatch_count_first(e, i) == e.steps[1].workgroup_count

dispatch_count(e, i) == e.steps[i].workgroup_count

(***************************************************************************)
(* Executable::dispatch_operations (executable.rs:19-44), one action per   *)
(* call it makes on the device, the encoder, the pass and the queue.       *)
(***************************************************************************)
InitExec ==
    /\ exe \in Executables
    /\ pc = "idle"
    /\ step_i = 0
    /\ bind_j = 0
    /\ cpass = <<>>
    /\ log = <<>>
    /\ returned = <<>>
    /\ IdleDispatch
    /\ IdleConcat
    /\ IdleKey
    /\ IdleOther

\* executable.rs:21-22
CreateCommandEncoder ==
    /\ pc = "idle"
    /\ Len(returned) < MaxDispatchCalls
    /\ log' = <<[cmd |-> "create_command_encoder"]>>
    /\ pc' = "encoder"
    /\ UNCHANGED <<exe, step_i, bind_j, cpass, returned>>
    /\ UNCHANGED <<dispatchVars, concatVars, keyVars, otherVars>>

\* executable.rs:25-28
BeginComputePass ==
    /\ pc = "encoder"
    /\ log' = Append(log, [cmd |-> "begin_compute_pass"])
    /\ cpass' = [pipeline |-> <<>>, bind_groups |-> <<>>]
    /\ step_i' = 1
    /\ pc' = "loop"
    /\ UNCHANGED <<exe, bind_j, returned>>
    /\ UNCHANGED <<dispatchVars, concatVars, keyVars, otherVars>>

\* executable.rs:29-30
SetPipeline ==
    /\ pc = "loop"
    /\ step_i <= Len(exe.steps)
    /\ LET pipeline == pipeline_resources_get(exe.steps[step_i].pipeline_handle)
       IN  /\ cpass' = [cpass EXCEPT !.pipeline = pipeline]
           /\ log' = Append(log, [cmd |-> "set_pipeline", pipeline |-> pipeline])
    /\ bind_j' = 0
    /\ pc' = "storage"
    /\ UNCHANGED <<exe, step_i, returned>>
    /\ UNCHANGED <<dispatchVars, concatVars, keyVars, otherVars>>

\* set_bind_group on the open pass: the slot is overwritten, the others stay
set_bind_group(groups, index, group, offsets) ==
    [k \in (DOMAIN groups) \cup {index} |->
        IF k = index THEN [group |-> group, offsets |-> offsets] ELSE groups[k]]

\* executable.rs:32-34
SetStorageBindGroup ==
    /\ pc = "storage"
    /\ bind_j < Len(exe.steps[step_i].storage_groups)
    /\ LET bind_group == exe.steps[step_i].storage_groups[bind_j + 1]
       IN  /\ cpass' = [cpass EXCEPT !.bind_groups =
                            set_bind_group(@, bind_j, bind_group, <<>>)]
           /\ log' = Append(log, [cmd |-> "set_bind_group", index |-> bind_j,
                                  group |-> bind_group, offsets |-> <<>>])
    /\ bind_j' = bind_j + 1
    /\ UNCHANGED <<exe, pc, step_i, returned>>
    /\ UNCHANGED <<dispatchVars, concatVars, keyVars, otherVars>>

\* executable.rs:36-37
SetUniformBindGroup ==
    /\ pc = "storage"
    /\ bind_j = Len(exe.steps[step_i].storage_groups)
    /\ LET step == exe.steps[step_i]
           index == uniform_group_index(step)
       IN  /\ cpass' = [cpass EXCEPT !.bind_groups =
                            set_bind_group(@, index, exe.uniform_group, <<step.offset>>)]
           /\ log' = Append(log, [cmd |-> "set_bind_group", index |-> index,
                                  group |-> exe.uniform_group,
                                  offsets |-> <<step.offset>>])
    /\ pc' = "dispatch"
    /\ UNCHANGED <<exe, step_i, bind_j, returned>>
    /\ UNCHANGED <<dispatchVars, concatVars, keyVars, otherVars>>

\* executable.rs:39-40; the entry keeps what the pass has bound at the call
DispatchWorkgroups ==
    /\ pc = "dispatch"
    /\ log' = Append(log, [cmd |-> "dispatch_workgroups",
                           count |-> dispatch_count(exe, step_i),
                           bound |-> cpass])
    /\ step_i' = step_i + 1
    /\ pc' = "loop"
    /\ UNCHANGED <<exe, bind_j, cpass, returned>>
    /\ UNCHANGED <<dispatchVars, concatVars, keyVars, otherVars>>

\* executable.rs:41-42: the loop is over and the pass goes out of scope
EndComputePass ==
    /\ pc = "loop"
    /\ step_i > Len(exe.steps)
    /\ log' = Append(log, [cmd |-> "end_compute_pass"])
    /\ cpass' = <<>>
    /\ pc' = "recorded"
    /\ UNCHANGED <<exe, step_i, bind_j, returned>>
    /\ UNCHANGED <<dispatchVars, concatVars, keyVars, otherVars>>

\* executable.rs:43: the encoder is finished into one command buffer, which
\* holds what was recorded, and the queue is given that buffer
Submit ==
    /\ pc = "recorded"
    /\ LET buffer == SelectSeq(log, LAMBDA e : e.cmd # "create_command_encoder")
       IN  returned' = Append(returned,
                              Append(log, [cmd |-> "submit", buffers |-> <<buffer>>]))
    /\ log' = <<>>
    /\ step_i' = 0
    /\ bind_j' = 0
    /\ pc' = "idle"
    /\ UNCHANGED <<exe, cpass>>
    /\ UNCHANGED <<dispatchVars, concatVars, keyVars, otherVars>>

NextExec ==
    \/ CreateCommandEncoder
    \/ BeginComputePass
    \/ SetPipeline
    \/ SetStorageBindGroup
    \/ SetUniformBindGroup
    \/ DispatchWorkgroups
    \/ EndComputePass
    \/ Submit

SpecExec == InitExec /\ [][NextExec]_vars


(***************************************************************************)
(* Tensor, Shape and Strides, as far as the concat operation uses them     *)
(* (crates/ratchet-core/src/{tensor,shape,strides}.rs are not part of the  *)
(* sources at hand).  A tensor is [shape, dt]; axes count from 0 in the    *)
(* program and sequences from 1 here.                                      *)
(***************************************************************************)
rank(x) == Len(x.shape)

\* Shape::numel: the product of the dimensions.
RECURSIVE numel(_)
numel(shape) == IF shape = <<>> THEN 1 ELSE shape[1] * numel(Tail(shape))

\* Strides::from(&Shape): the strides of the contiguous (row-major) layout.
StridesFrom(shape) ==
    [i \in 1..Len(shape) |-> numel(SubSeq(shape, i + 1, Len(shape)))]

\* Shape::promote(shape, rank): pad with leading 1s up to the rank.
promote(shape, r) ==
    IF Len(shape) >= r THEN shape ELSE [i \in 1..(r - Len(shape)) |-> 1] \o shape

\* The size of input x along axis d.
AxisSize(x, d) == x.shape[d + 1]

\* The sum of the first k inputs' sizes along axis d.
RECURSIVE SumAxis(_, _, _)
SumAxis(inputs, d, k) ==
    IF k = 0 THEN 0 ELSE SumAxis(inputs, d, k - 1) + AxisSize(inputs[k], d)

(***************************************************************************)
(* Concat::compute_view (concat.rs:94-101).                                *)
(***************************************************************************)
compute_view_first_only(o) ==
    LET first == o.inputs[1]
    IN  [shape |-> first.shape, dt |-> first.dt, strides |-> StridesFrom(first.shape)]

compute_view(o) ==
    LET first == o.inputs[1]
        stacked_dim == SumAxis(o.inputs, o.dim, Len(o.inputs))
        output_shape == [first.shape EXCEPT ![o.dim + 1] = stacked_dim]
        output_strides == StridesFrom(output_shape)
    IN  [shape |-> output_shape, dt |-> first.dt, strides |-> output_strides]

(***************************************************************************)
(* impl OpGuards for Concat (concat.rs:104-132): TRUE when every assert!   *)
(* passes; a failed assert! unwinds (panics).                              *)
(***************************************************************************)
check_shapes(o) ==
    LET first == o.inputs[1]
    IN  /\ Len(o.inputs) > 1
        /\ Len(o.inputs) <= 8
        /\ \A k \in DOMAIN o.inputs :
               rank(o.inputs[k]) = rank(first) /\ rank(o.inputs[k]) <= 4
        /\ \A k \in DOMAIN o.inputs : o.dim < rank(o.inputs[k])
        /\ \A axis \in 0..(o.dim - 1) : \A k \in DOMAIN o.inputs :
               AxisSize(o.inputs[k], axis) = AxisSize(first, axis)
        /\ \A axis \in (o.dim + 1)..(rank(first) - 1) : \A k \in DOMAIN o.inputs :
               AxisSize(o.inputs[k], axis) = AxisSize(first, axis)

check_dtypes(o) == \A k \in DOMAIN o.inputs : o.inputs[k].dt = o.inputs[1].dt

\* What running the guards yields: the asserts return nothing on success
\* and unwind on failure.
guards(o) == IF check_shapes(o) /\ check_dtypes(o) THEN "Ok" ELSE "panic"

(***************************************************************************)
(* gpu::CpuUniform, the metadata packer: [cursor, members], a member being *)
(* [at, size, value].  Modelled from the specification (4.4) and from the  *)
(* comments of write_metadata; the type is not part of the sources at hand.*)
(***************************************************************************)
RoundUp(v, align) == ((v + align - 1) \div align) * align

\* Rounds the cursor up to the slot boundary; the new cursor is what the
\* call returns.
write_struct_end(u) == [u EXCEPT !.cursor = RoundUp(u.cursor, UNIFORM_ALIGN)]

\* Writes one member at the cursor, aligned to the member's alignment.
write_struct_member(u, align, size, value) ==
    LET at == RoundUp(u.cursor, align)
    IN  [cursor  |-> at + size,
         members |-> Append(u.members, [at |-> at, size |-> size, value |-> value])]

RECURSIVE write_struct_members(_, _, _, _)
write_struct_members(u, align, size, values) ==
    IF values = <<>> THEN u
    ELSE write_struct_members(write_struct_member(u, align, size, Head(values)),
                              align, size, Tail(values))

(***************************************************************************)
(* Concat::write_metadata (concat.rs:172-216).  A UVec4 is 16 bytes,       *)
(* aligned to 16; a u32 is 4 bytes, aligned to 4.  The result is the packer*)
(* after the call and the offset returned.                                 *)
(***************************************************************************)
\* The sizes along the axis, not summed.
metadata_cumsum_sizes(input_shapes, promoted_dim) ==
    [k \in DOMAIN input_shapes |-> input_shapes[k][promoted_dim + 1]]

metadata_cumsum(input_shapes, promoted_dim) ==
    [k \in DOMAIN input_shapes |->
        SumAxis([j \in DOMAIN input_shapes |-> [shape |-> input_shapes[j]]],
                promoted_dim, k)]

write_metadata_struct_end(u, o, dst_shape) ==
    LET original_rank == rank(o.inputs[1])
        promotion == 4 - original_rank
        input_shapes == [k \in DOMAIN o.inputs |-> promote(o.inputs[k].shape, 4)]
        input_strides == [k \in DOMAIN o.inputs |-> StridesFrom(input_shapes[k])]
        promoted_dim == o.dim + promotion
        dst_shape4 == promote(dst_shape, 4)
        dst_strides == StridesFrom(dst_shape4)
        u0 == write_struct_end(u)
        cumsum == metadata_cumsum(input_shapes, promoted_dim)
        u1 == write_struct_members(u0, 16, 16, input_strides)
        u2 == write_struct_member(u1, 16, 16, dst_strides)
        u3 == write_struct_member(u2, 4, 4, numel(dst_shape4))
        u4 == write_struct_members(u3, 4, 4, cumsum)
        u5 == write_struct_member(u4, 4, 4, promoted_dim)
        u6 == write_struct_end(u5)
    IN  [uniform |-> u6, offset |-> u6.cursor]

write_metadata(u, o, dst_shape) ==
    LET original_rank == rank(o.inputs[1])
        promotion == 4 - original_rank
        input_shapes == [k \in DOMAIN o.inputs |-> promote(o.inputs[k].shape, 4)]
        input_strides == [k \in DOMAIN o.inputs |-> StridesFrom(input_shapes[k])]
        promoted_dim == o.dim + promotion
        dst_shape4 == promote(dst_shape, 4)
        dst_strides == StridesFrom(dst_shape4)
        u0 == write_struct_end(u)
        cumsum == metadata_cumsum(input_shapes, promoted_dim)
        u1 == write_struct_members(u0, 16, 16, input_strides)
        u2 == write_struct_member(u1, 16, 16, dst_strides)
        u3 == write_struct_member(u2, 4, 4, numel(dst_shape4))
        u4 == write_struct_members(u3, 4, 4, cumsum)
        u5 == write_struct_member(u4, 4, 4, promoted_dim)
        u6 == write_struct_end(u5)
    IN  [uniform |-> u6, offset |-> u6.cursor - UNIFORM_ALIGN]

(***************************************************************************)
(* write_metadata with the Result of every member write (concat.rs:        *)
(* 189-215).  The struct's member writes are numbered from 1 in write      *)
(* order; fails names the ones for which write_struct_member returns Err.  *)
(* A failed write leaves the packer as it was.  The strides, dst_strides,  *)
(* numel and dim writes are bound with `let _ =` and go on whatever the    *)
(* Result; the cum writes end with `?` and return the error.               *)
(***************************************************************************)
\* Member writes first..(first + Len(values) - 1), none of them checked.
RECURSIVE write_members_unchecked(_, _, _, _, _, _)
write_members_unchecked(u, align, size, values, first, fails) ==
    IF values = <<>> THEN u
    ELSE write_members_unchecked(
             IF first \in fails THEN u
             ELSE write_struct_member(u, align, size, Head(values)),
             align, size, Tail(values), first + 1, fails)

\* The same with `?` on every write: the packer at the first failure, or
\* after the last write.
RECURSIVE write_members_checked(_, _, _, _, _, _)
write_members_checked(u, align, size, values, first, fails) ==
    IF values = <<>> THEN [tag |-> "Ok", uniform |-> u]
    ELSE IF first \in fails THEN [tag |-> "UniformError", uniform |-> u]
    ELSE write_members_checked(write_struct_member(u, align, size, Head(values)),
                               align, size, Tail(values), first + 1, fails)

write_metadata_fallible(u, o, dst_shape, fails) ==
    LET n == Len(o.inputs)
        original_rank == rank(o.inputs[1])
        promotion == 4 - original_rank
        input_shapes == [k \in DOMAIN o.inputs |-> promote(o.inputs[k].shape, 4)]
        input_strides == [k \in DOMAIN o.inputs |-> StridesFrom(input_shapes[k])]
        promoted_dim == o.dim + promotion
        dst_shape4 == promote(dst_shape, 4)
        dst_strides == StridesFrom(dst_shape4)
        u0 == write_struct_end(u)
        cumsum == metadata_cumsum(input_shapes, promoted_dim)
        u1 == write_members_unchecked(u0, 16, 16, input_strides, 1, fails)
        u2 == write_members_unchecked(u1, 16, 16, <<dst_strides>>, n + 1, fails)
        u3 == write_members_unchecked(u2, 4, 4, <<numel(dst_shape4)>>, n + 2, fails)
        r4 == write_members_checked(u3, 4, 4, cumsum, n + 3, fails)
        u5 == write_members_unchecked(r4.uniform, 4, 4, <<promoted_dim>>,
                                      2 * n + 3, fails)
        u6 == write_struct_end(u5)
    IN  IF r4.tag = "UniformError"
        THEN [tag |-> "UniformError", uniform |-> r4.uniform, offset |-> 0]
        ELSE [tag |-> "Ok", uniform |-> u6, offset |-> u6.cursor - UNIFORM_ALIGN]

\* The metadata struct a kernel of n inputs sees with the uniform group
\* bound at an offset: the members of that slot, named in write order.
ReadMeta(u, offset, n) ==
    LET ms == SelectSeq(u.members,
                        LAMBDA m : m.at >= offset /\ m.at < offset + UNIFORM_ALIGN)
    IN  [x_stride   |-> [k \in 1..n |-> ms[k].value],
         dst_stride |-> ms[n + 1].value,
         dst_numel  |-> ms[n + 2].value,
         cum        |-> [k \in 1..n |-> ms[n + 2 + k].value],
         dim        |-> ms[2 * n + 3].value]

(***************************************************************************)
(* Kernel selection and generation (concat.rs:20-90, 143-151, 218-250).    *)
(* A KernelSource is modelled by what its text is made of: the workgroup   *)
(* size, the builtins, the bindings and the blocks of main; two sources    *)
(* are the same text exactly when these are equal.                         *)
(***************************************************************************)
\* concat.rs:149-151
kernel_element(dst) == "Scalar"

\* KernelElement::as_str
as_str(ke) ==
    CASE ke = "Scalar" -> "scalar" [] ke = "Vec2" -> "vec2" [] ke = "Vec4" -> "vec4"

\* concat.rs:143-147: format!("concat{}_{}", num_inputs, ke)
kernel_key(o, inplace, dst) ==
    <<"concat", Len(o.inputs), as_str(kernel_element(dst))>>

\* concat.rs:20-34
register_bindings(o, P, inplace) ==
    IF ~inplace
    THEN [tag |-> "panic"]
    ELSE [tag     |-> "Ok",
          storage |-> [i \in 1..Len(o.inputs) |->
                          [name |-> <<"X", i - 1>>, mode |-> "ReadOnly", ty |-> P]],
          uniform |-> 1]

\* concat.rs:36-90
build_concat(o, P, inplace, workgroup_size) ==
    LET bindings == register_bindings(o, P, inplace)
    IN  IF bindings.tag = "panic"
        THEN [tag |-> "panic"]
        ELSE [tag            |-> "Ok",
              workgroup_size |-> workgroup_size,
              builtins       |-> <<"LocalInvocationIndex", "NumWorkgroups", "WorkgroupId">>,
              storage        |-> bindings.storage,
              uniform        |-> bindings.uniform,
              main           |-> <<"head", <<"block", 0>>>> \o
                                 [i \in 1..(Len(o.inputs) - 1) |-> <<"block", i>>]]

\* BindGroupLayoutDescriptor::nthary(ro_length): ro_length read-only storage
\* entries followed by the read-write entry of the destination (not part
\* of the sources at hand; as the specification's 4.1 describes the layout).
nthary(ro_length) ==
    [i \in 1..(ro_length + 1) |-> [binding |-> i - 1, read_only |-> i <= ro_length]]

\* concat.rs:165-170
storage_bind_group_layout(o, inplace) == nthary(Len(o.inputs))

\* concat.rs:218-250
build_kernel(o, inplace, dst, workgroup_size) ==
    LET ke == kernel_element(dst)
    IN  IF dst.dt \in {"F32", "F16"} /\ ke \in {"Scalar", "Vec2", "Vec4"}
        THEN build_concat(o, <<ke, dst.dt>>, inplace, workgroup_size)
        ELSE [tag |-> "CompileError", dt |-> dst.dt, ke |-> ke]

(***************************************************************************)
(* The generated kernel's main (concat.rs:56-87) for one invocation.       *)
(* u32 values are kept as two's complement representatives: a negative     *)
(* number v stands for 2^32 + v, so sums, differences and products wrap as *)
(* the shader's do, and comparisons are made unsigned.                     *)
(***************************************************************************)
ULt(a, b) == IF (a < 0) = (b < 0) THEN a < b ELSE b < 0

\* The builder's offsetToNdIndex helper (write_offset_to_index).
offsetToNdIndex(offset, stride) ==
    LET i0 == offset \div stride[1]
        r0 == offset - i0 * stride[1]
        i1 == r0 \div stride[2]
        r1 == r0 - i1 * stride[2]
        i2 == r1 \div stride[3]
        r2 == r1 - i2 * stride[3]
    IN  <<i0, i1, i2, r2>>

\* The builder's ndIndexToOffset helper (write_index_to_offset): dot product.
ndIndexToOffset(index, stride) ==
    index[1] * stride[1] + index[2] * stride[2] + index[3] * stride[3]
        + index[4] * stride[4]

\* What is in the destination before the kernel writes it.
Unwritten == [src |-> -2, at |-> 0]
\* A read outside the bound buffer: the value is any element of the buffer
\* or zero.
OutOfBounds == -1
Zero == [src |-> -1, at |-> 0]

\* X<k>[offset] of a buffer of len elements: the element is named by its
\* input and place.
ReadSrc(k, offset, len) ==
    IF offset >= 0 /\ offset < len
    THEN [src |-> k, at |-> offset]
    ELSE [src |-> k, at |-> OutOfBounds]

\* Blocks i..n-1 of main (concat.rs:74-87): every block whose condition
\* holds subtracts from dst_index and writes Y[dst_offset]; y is the value
\* last written.
RECURSIVE concat_blocks(_, _, _, _, _, _)
concat_blocks(meta, lens, n, i, dst_index, y) ==
    IF i > n - 1 THEN y
    ELSE IF ULt(dst_index[meta.dim + 1], meta.cum[i + 1])
         THEN LET index == [dst_index EXCEPT ![meta.dim + 1] = @ - meta.cum[i]]
                  src_offset == ndIndexToOffset(index, meta.x_stride[i + 1])
              IN  concat_blocks(meta, lens, n, i + 1, index,
                                ReadSrc(i, src_offset, lens[i + 1]))
         ELSE concat_blocks(meta, lens, n, i + 1, dst_index, y)

\* main for the invocation local_index of workgroup group_id: the offset
\* written and the value left there, before out-of-bounds reads are
\* resolved.  lens[k] is the length of the buffer bound as X<k-1>.
kernel_main(meta, lens, n, group_id, num_groups, local_index) ==
    LET dst_offset == kernel_head(group_id, num_groups, local_index, meta.dst_numel)
    IN  IF dst_offset = Returned
        THEN [dst_offset |-> Returned, y |-> Unwritten]
        ELSE LET dst_index == offsetToNdIndex(dst_offset, meta.dst_stride)
                 y0 == IF ULt(dst_index[meta.dim + 1], meta.cum[1])
                       THEN ReadSrc(0, ndIndexToOffset(dst_index, meta.x_stride[1]),
                                    lens[1])
                       ELSE Unwritten
             IN  [dst_offset |-> dst_offset,
                  y |-> concat_blocks(meta, lens, n, 1, dst_index, y0)]

\* The values a read may yield.
Resolve(y, lens) ==
    IF y.at = OutOfBounds
    THEN {Zero} \cup {[src |-> y.src, at |-> a] : a \in 0..(lens[y.src + 1] - 1)}
    ELSE {y}

(***************************************************************************)
(* SpecConcat: one Concat is compiled and its kernel run.  The order of    *)
(* the steps is the one the specification gives for a graph node (2):      *)
(* validate, infer the output, pack the metadata, plan the dispatch, build *)
(* the kernel; the orchestrating compile is not part of the sources at     *)
(* hand.                                                                   *)
(***************************************************************************)
SmallShapes == UNION {[1..r -> 1..MaxDim] : r \in 1..2}

\* The dtypes of n inputs: all F32, all F16, or a first F32 among F16.
DtPatterns(n) ==
    {[k \in 1..n |-> "F32"], [k \in 1..n |-> "F16"],
     [k \in 1..n |-> IF k = 1 THEN "F32" ELSE "F16"]}

SmallOps ==
    UNION {{[inputs |-> [k \in 1..n |-> [shape |-> shp[k], dt |-> dts[k]]],
             dim |-> d] :
               shp \in [1..n -> SmallShapes], dts \in DtPatterns(n), d \in 0..2} :
           n \in 1..3}

\* n inputs of one shape and dtype.
UniformOp(n, shape, dt, d) ==
    [inputs |-> [k \in 1..n |-> [shape |-> shape, dt |-> dt]], dim |-> d]

\* tests::test_concat (concat.rs:321-339)
TestConcatOp ==
    [inputs |-> [k \in 1..5 |->
                    [shape |-> <<4, 2, <<50, 13, 77, 55, 11>>[k], 128>>, dt |-> "F32"]],
     dim |-> 2]

ConcatOps ==
    SmallOps \cup
    {UniformOp(9, <<1>>, "F32", 0), UniformOp(8, <<2>>, "F32", 0),
     UniformOp(2, <<1, 1, 1, 1, 1>>, "F32", 0), UniformOp(2, <<2, 1, 2, 1>>, "F16", 1),
     UniformOp(3, <<1, 2, 1>>, "F32", 2), TestConcatOp}

InitConcat ==
    /\ op \in ConcatOps
    /\ phase = "new"
    /\ result = ""
    /\ view = <<>>
    /\ uniform = [cursor |-> 0, members |-> <<>>]
    /\ meta_offsets = <<>>
    /\ kernel = <<>>
    /\ inv = <<>>
    /\ IdleDispatch
    /\ IdleExec
    /\ IdleKey
    /\ IdleOther

\* The guards run: a failed assert! unwinds and the compilation is over.
Guards ==
    /\ phase = "new"
    /\ IF guards(op) = "Ok"
       THEN phase' = "checked" /\ result' = result
       ELSE phase' = "failed" /\ result' = guards(op)
    /\ UNCHANGED <<op, view, uniform, meta_offsets, kernel, inv>>
    /\ UNCHANGED <<dispatchVars, execVars, keyVars, otherVars>>

ComputeView ==
    /\ phase = "checked"
    /\ view' = compute_view(op)
    /\ dst_numel' = numel(view'.shape)
    /\ phase' = "viewed"
    /\ UNCHANGED <<op, result, uniform, meta_offsets, kernel, inv>>
    /\ UNCHANGED <<wgc, ran, writes, execVars, keyVars, otherVars>>

WriteMetadata ==
    /\ phase = "viewed"
    /\ LET r == write_metadata(uniform, op, view.shape)
       IN  /\ uniform' = r.uniform
           /\ meta_offsets' = Append(meta_offsets, r.offset)
    /\ phase' = "packed"
    /\ UNCHANGED <<op, result, view, kernel, inv>>
    /\ UNCHANGED <<dispatchVars, execVars, keyVars, otherVars>>

CompileDispatch ==
    /\ phase = "packed"
    /\ wgc' = calculate_dispatch(dst_numel)
    /\ phase' = "planned"
    /\ UNCHANGED <<op, result, view, uniform, meta_offsets, kernel, inv>>
    /\ UNCHANGED <<dst_numel, ran, writes, execVars, keyVars, otherVars>>

\* The caller's can_inplace is not known here: either value.
BuildKernel ==
    /\ phase = "planned"
    /\ \E inplace \in BOOLEAN :
           kernel' = build_kernel(op, inplace, view, WorkgroupInvocations)
    /\ phase' = IF kernel'.tag = "Ok" THEN "compiled" ELSE "failed"
    /\ result' = kernel'.tag
    /\ UNCHANGED <<op, view, uniform, meta_offsets, inv>>
    /\ UNCHANGED <<dispatchVars, execVars, keyVars, otherVars>>

\* One invocation of the dispatched kernel runs main to its end.  The
\* invocations do not affect one another (each writes only Y[dst_offset] of
\* its own), so a behaviour follows one of them, any one.
RunInvocation ==
    /\ phase = "compiled"
    /\ dst_numel <= MaxKernelNumel
    /\ \E g \in Grid(wgc), li \in 0..(kernel.workgroup_size - 1) :
         LET n == Len(kernel.storage)
             lens == [k \in 1..n |-> numel(op.inputs[k].shape)]
             meta == ReadMeta(uniform, meta_offsets[Len(meta_offsets)], n)
             r == kernel_main(meta, lens, n, g, wgc, li)
         IN  \E y \in Resolve(r.y, lens) :
                 inv' = [group_id |-> g, local_index |-> li,
                         dst_offset |-> r.dst_offset, y |-> y]
    /\ phase' = "ran"
    /\ UNCHANGED <<op, result, view, uniform, meta_offsets, kernel>>
    /\ UNCHANGED <<dispatchVars, execVars, keyVars, otherVars>>

NextConcat ==
    \/ Guards
    \/ ComputeView
    \/ WriteMetadata
    \/ CompileDispatch
    \/ BuildKernel
    \/ RunInvocation

SpecConcat == InitConcat /\ [][NextConcat]_vars

(***************************************************************************)
(* SpecUniform: a sequence of Concats pack their metadata into one         *)
(* CpuUniform, as the steps of one Executable do.                          *)
(***************************************************************************)
\* Concats of 2 to 8 inputs that pass the guards.
PackedOps ==
    {UniformOp(n, shape, "F32", 0) : n \in 2..8, shape \in {<<1>>, <<2, 1>>}}

InitUniform ==
    /\ op = [inputs |-> <<>>, dim |-> 0]
    /\ phase = "packing"
    /\ result = ""
    /\ view = <<>>
    /\ uniform = [cursor |-> 0, members |-> <<>>]
    /\ meta_offsets = <<>>
    /\ kernel = <<>>
    /\ inv = <<>>
    /\ IdleDispatch
    /\ IdleExec
    /\ IdleKey
    /\ IdleOther

\* One call of write_metadata, for the destination compute_view gives.
PackMetadata ==
    /\ phase = "packing"
    /\ Len(meta_offsets) < MaxPacked
    /\ \E o \in PackedOps :
         LET r == write_metadata(uniform, o, compute_view(o).shape)
         IN  /\ op' = o
             /\ uniform' = r.uniform
             /\ meta_offsets' = Append(meta_offsets, r.offset)
    /\ UNCHANGED <<phase, result, view, kernel, inv>>
    /\ UNCHANGED <<dispatchVars, execVars, keyVars, otherVars>>

NextUniform == PackMetadata

SpecUniform == InitUniform /\ [][NextUniform]_vars

(***************************************************************************)
(* SpecUniformFault: as SpecUniform, with member writes that may fail.  An *)
(* error write_metadata returns ends the compilation: no further op packs. *)
(***************************************************************************)
FaultedOps == {UniformOp(n, <<1>>, "F32", 0) : n \in 2..3}

\* No member write fails, or one does.
FaultSets(o) == {{}} \cup {{m} : m \in 1..(2 * Len(o.inputs) + 3)}

InitUniformFault ==
    /\ op = [inputs |-> <<>>, dim |-> 0]
    /\ phase = "packing"
    /\ result = ""
    /\ view = <<>>
    /\ uniform = [cursor |-> 0, members |-> <<>>]
    /\ meta_offsets = <<>>
    /\ kernel = <<>>
    /\ inv = <<>>
    /\ IdleDispatch
    /\ IdleExec
    /\ IdleKey
    /\ IdleOther

PackMetadataFallible ==
    /\ phase = "packing"
    /\ result # "UniformError"
    /\ Len(meta_offsets) < MaxPacked
    /\ \E o \in FaultedOps : \E fails \in FaultSets(o) :
         LET r == write_metadata_fallible(uniform, o, compute_view(o).shape, fails)
         IN  /\ op' = o
             /\ fault' = fails
             /\ uniform' = r.uniform
             /\ result' = r.tag
             /\ meta_offsets' = IF r.tag = "Ok" THEN Append(meta_offsets, r.offset)
                                ELSE meta_offsets
    /\ UNCHANGED <<phase, view, kernel, inv>>
    /\ UNCHANGED <<dispatchVars, execVars, keyVars, poolVars, lazyVars, normVars>>

NextUniformFault == PackMetadataFallible

SpecUniformFault == InitUniformFault /\ [][NextUniformFault]_vars

(***************************************************************************)
(* SpecKey: two kernel requests have their cache key computed and their    *)
(* source generated.  A request is the number of inputs, their dtype and   *)
(* the workgroup size the caller passes to build_kernel.                   *)
(***************************************************************************)
Requests == [n : 2..8, dt : {"F32", "F16"}, workgroup_size : {WorkgroupInvocations, 128}]

InitKey ==
    /\ pair \in Requests \X Requests
    /\ built = <<>>
    /\ IdleDispatch
    /\ IdleExec
    /\ IdleConcat
    /\ IdleOther

\* kernel_key and build_kernel for the next request of the pair.
Build ==
    /\ Len(built) < Len(pair)
    /\ LET rq == pair[Len(built) + 1]
           o == UniformOp(rq.n, <<1>>, rq.dt, 0)
           dst == compute_view(o)
       IN  built' = Append(built, [key    |-> kernel_key(o, TRUE, dst),
                                   source |-> build_kernel(o, TRUE, dst,
                                                           rq.workgroup_size)])
    /\ UNCHANGED pair
    /\ UNCHANGED <<dispatchVars, execVars, concatVars, otherVars>>

NextKey == Build

SpecKey == InitKey /\ [][NextKey]_vars

(***************************************************************************)
(* SpecPool: concurrent resolve requests get their pipeline from the       *)
(* process-wide pipeline cache and bind it (executable.rs:20, 30).  The    *)
(* cache (the device's resource pool) is not part of the sources at hand;  *)
(* it is modelled from the specification (4.3, 5): a map guarded so that   *)
(* check, build-if-absent and insert are one critical section.             *)
(***************************************************************************)
PoolKeys == 1..2

\* Whether request t may enter the cache's critical section.
can_acquire_always(c, t) == TRUE

can_acquire(c, t) == c.holder = 0

\* The entry of a key, as a set: empty on a miss.
cache_lookup(c, key) == {e \in c.entries : e.key = key}

\* pipeline_resources.get(handle): the pipeline of a handle, as a set.
pool_get(ps, handle) == IF handle \in DOMAIN ps THEN {ps[handle]} ELSE {}

InitPool ==
    /\ cache = [entries |-> {}, holder |-> 0]
    /\ pipelines = <<>>
    /\ requests \in [1..MaxRequests -> [pc : {"start"}, key : PoolKeys, handle : {0}]]
    /\ IdleDispatch
    /\ IdleExec
    /\ IdleConcat
    /\ IdleKey
    /\ IdleFault
    /\ IdleLazy
    /\ IdleNorm

Acquire(t) ==
    /\ requests[t].pc = "start"
    /\ can_acquire(cache, t)
    /\ cache' = [entries |-> cache.entries, holder |-> t]
    /\ requests' = [requests EXCEPT ![t].pc = "lookup"]
    /\ UNCHANGED pipelines
    /\ UNCHANGED <<dispatchVars, execVars, concatVars, keyVars, faultVars, lazyVars, normVars>>

\* check: a hit yields the cached handle, a miss goes on to build.
Lookup(t) ==
    /\ requests[t].pc = "lookup"
    /\ LET hit == cache_lookup(cache, requests[t].key)
       IN  IF hit = {}
           THEN requests' = [requests EXCEPT ![t].pc = "build"]
           ELSE \E e \in hit :
                    requests' = [requests EXCEPT ![t].pc = "release",
                                                 ![t].handle = e.handle]
    /\ UNCHANGED <<cache, pipelines>>
    /\ UNCHANGED <<dispatchVars, execVars, concatVars, keyVars, faultVars, lazyVars, normVars>>

\* build-if-absent: the device builds a pipeline, its handle is its index.
BuildPipeline(t) ==
    /\ requests[t].pc = "build"
    /\ pipelines' = Append(pipelines, [key |-> requests[t].key, by |-> t])
    /\ requests' = [requests EXCEPT ![t].pc = "insert",
                                    ![t].handle = Len(pipelines) + 1]
    /\ UNCHANGED cache
    /\ UNCHANGED <<dispatchVars, execVars, concatVars, keyVars, faultVars, lazyVars, normVars>>

Insert(t) ==
    /\ requests[t].pc = "insert"
    /\ cache' = [entries |-> {e \in cache.entries : e.key # requests[t].key}
                             \cup {[key |-> requests[t].key,
                                    handle |-> requests[t].handle]},
                 holder |-> cache.holder]
    /\ requests' = [requests EXCEPT ![t].pc = "release"]
    /\ UNCHANGED pipelines
    /\ UNCHANGED <<dispatchVars, execVars, concatVars, keyVars, faultVars, lazyVars, normVars>>

Release(t) ==
    /\ requests[t].pc = "release"
    /\ cache' = [entries |-> cache.entries,
                 holder |-> IF cache.holder = t THEN 0 ELSE cache.holder]
    /\ requests' = [requests EXCEPT ![t].pc = "resolved"]
    /\ UNCHANGED pipelines
    /\ UNCHANGED <<dispatchVars, execVars, concatVars, keyVars, faultVars, lazyVars, normVars>>

\* executable.rs:30: set_pipeline(pipeline_resources.get(handle).unwrap())
GetPipeline(t) ==
    /\ requests[t].pc = "resolved"
    /\ requests' = [requests EXCEPT ![t].pc =
                        IF pool_get(pipelines, requests[t].handle) = {}
                        THEN "panic" ELSE "bound"]
    /\ UNCHANGED <<cache, pipelines>>
    /\ UNCHANGED <<dispatchVars, execVars, concatVars, keyVars, faultVars, lazyVars, normVars>>

NextPool ==
    \E t \in 1..MaxRequests :
        \/ Acquire(t)
        \/ Lookup(t)
        \/ BuildPipeline(t)
        \/ Insert(t)
        \/ Release(t)
        \/ GetPipeline(t)

SpecPool == InitPool /\ [][NextPool]_vars

(***************************************************************************)
(* LazyOp (op.rs:10-37): a tagged union over op instances.  The held       *)
(* Binary, Matmul and Softmax are not part of the sources at hand; a held  *)
(* op is what its own srcs() and supports_inplace() return.                *)
(***************************************************************************)
LazyOpVariants == {"Empty", "Matmul", "Binary", "Softmax", "Const"}

\* The tensors a held op may refer to, by identity.
SrcLists == UNION {[1..n -> 1..2] : n \in 0..MaxSrcs}

LazyOps ==
    {[variant |-> v, held |-> [srcs |-> ss, supports_inplace |-> b]] :
        v \in {"Matmul", "Binary", "Softmax"}, ss \in SrcLists, b \in BOOLEAN}
    \cup {[variant |-> v, held |-> [srcs |-> <<>>, supports_inplace |-> FALSE]] :
        v \in {"Empty", "Const"}}

\* b.$method() of a held op
held_method(held, method) ==
    IF method = "srcs" THEN held.srcs ELSE held.supports_inplace

\* A delegate whose remaining variants answer with the empty default.
lazy_op_delegate_default(self, method) ==
    [tag |-> "Ok",
     value |-> IF self.variant \in {"Binary", "Matmul", "Softmax"}
               THEN held_method(self.held, method)
               ELSE IF method = "srcs" THEN <<>> ELSE FALSE]

\* op.rs:18-27: the macro lazy_op_delegate!
lazy_op_delegate(self, method) ==
    CASE self.variant = "Binary"  -> [tag |-> "Ok", value |-> held_method(self.held, method)]
      [] self.variant = "Matmul"  -> [tag |-> "Ok", value |-> held_method(self.held, method)]
      [] self.variant = "Softmax" -> [tag |-> "Ok", value |-> held_method(self.held, method)]
      [] OTHER                    -> [tag |-> "unimplemented", value |-> <<>>]

InitLazy ==
    /\ node \in LazyOps
    /\ called = [method |-> "none"]
    /\ IdleDispatch
    /\ IdleExec
    /\ IdleConcat
    /\ IdleKey
    /\ IdleFault
    /\ IdlePool
    /\ IdleNorm

\* op.rs:30-32
Srcs ==
    /\ LET r == lazy_op_delegate(node, "srcs")
       IN  called' = [method |-> "srcs", tag |-> r.tag, value |-> r.value]
    /\ UNCHANGED node
    /\ UNCHANGED <<dispatchVars, execVars, concatVars, keyVars, faultVars, poolVars, normVars>>

\* op.rs:34-36
SupportsInplace ==
    /\ LET r == lazy_op_delegate(node, "supports_inplace")
       IN  called' = [method |-> "supports_inplace", tag |-> r.tag, value |-> r.value]
    /\ UNCHANGED node
    /\ UNCHANGED <<dispatchVars, execVars, concatVars, keyVars, faultVars, poolVars, normVars>>

NextLazy ==
    \/ Srcs
    \/ SupportsInplace

SpecLazy == InitLazy /\ [][NextLazy]_vars

(***************************************************************************)
(* GroupNorm (norm/groupnorm.rs:6-32): [input, scale, bias, num_groups],   *)
(* the first three being the fields of its Norm.  input is the tensor's    *)
(* StorageView [shape, dt, strides]; bias is [present, dt].                *)
(***************************************************************************)
\* A guard that leaves the bias out.
groupnorm_check_dtypes_no_bias(g) ==
    /\ g.input.dt = "F32"
    /\ g.scale.dt = "F32"

\* groupnorm.rs:13-17; a remainder by zero unwinds as a failed assert! does
groupnorm_check_shapes(g) ==
    /\ rank(g.input) >= 3
    /\ LET channels == g.input.shape[2]
       IN  /\ g.num_groups # 0
           /\ channels % g.num_groups = 0

\* groupnorm.rs:19-25
groupnorm_check_dtypes(g) ==
    /\ g.input.dt = "F32"
    /\ g.scale.dt = "F32"
    /\ g.bias.present => g.bias.dt = "F32"

\* groupnorm.rs:28-30
groupnorm_compute_view(g) == g.input

\* Views of rank 2 to 4, contiguous or with the strides reversed.
NormInputs ==
    UNION {{[shape |-> shp, dt |-> dt, strides |-> st] :
               dt \in {"F32", "F16"},
               st \in {StridesFrom(shp),
                       [j \in DOMAIN shp |-> StridesFrom(shp)[Len(shp) + 1 - j]]}} :
           shp \in UNION {[1..r -> 1..MaxDim] : r \in 2..4}}

GroupNorms ==
    [input : NormInputs,
     scale : [dt : {"F32", "F16"}],
     bias : {[present |-> FALSE, dt |-> ""],
             [present |-> TRUE, dt |-> "F32"], [present |-> TRUE, dt |-> "F16"]},
     num_groups : 0..MaxGroups]

InitNorm ==
    /\ gn \in GroupNorms
    /\ gn_guards = ""
    /\ gn_view = [shape |-> <<>>, dt |-> "", strides |-> <<>>]
    /\ IdleDispatch
    /\ IdleExec
    /\ IdleConcat
    /\ IdleKey
    /\ IdleFault
    /\ IdlePool
    /\ IdleLazy

\* The guards run: check_shapes, then check_dtypes.
GroupNormGuards ==
    /\ gn_guards = ""
    /\ gn_guards' = IF groupnorm_check_shapes(gn) /\ groupnorm_check_dtypes(gn)
                    THEN "Ok" ELSE "panic"
    /\ UNCHANGED <<gn, gn_view>>
    /\ UNCHANGED <<dispatchVars, execVars, concatVars, keyVars, faultVars, poolVars, lazyVars>>

GroupNormComputeView ==
    /\ gn_guards = "Ok"
    /\ gn_view' = groupnorm_compute_view(gn)
    /\ UNCHANGED <<gn, gn_guards>>
    /\ UNCHANGED <<dispatchVars, execVars, concatVars, keyVars, faultVars, poolVars, lazyVars>>

NextNorm ==
    \/ GroupNormGuards
    \/ GroupNormComputeView

SpecNorm == InitNorm /\ [][NextNorm]_vars

(***************************************************************************)
(* Claims about the dispatch planner, checked under SpecDispatch.          *)
(***************************************************************************)
\* q is the quotient a / b rounded up (b > 0).
IsCeil(q, a, b) == q * b >= a /\ (q - 1) * b < a

\* C1: for a destination of N elements, batch 64 and per-dimension limit
\* L = MAX_WGS_PER_DIM, calculate_dispatch returns (ceil(N/64), 1, 1) when
\* ceil(N/64) <= L and (L, ceil(ceil(N/64)/L), 1) otherwise, and in both
\* cases x * y * 64 >= N.
C1_DispatchShape ==
    wgc # <<>> =>
        LET c == (dst_numel + 63) \div 64
        IN  /\ IsCeil(c, dst_numel, 64)
            /\ c <= MAX_WGS_PER_DIM => wgc = <<c, 1, 1>>
            /\ c > MAX_WGS_PER_DIM =>
                   /\ wgc[1] = MAX_WGS_PER_DIM
                   /\ IsCeil(wgc[2], c, MAX_WGS_PER_DIM)
                   /\ wgc[3] = 1
            /\ wgc[1] * wgc[2] * 64 >= dst_numel

\* A destination one element past a full row of the grid has been planned:
\* the grid is folded into a second row.
C1_Witness ==
    /\ dst_numel = 64 * MAX_WGS_PER_DIM + 1
    /\ wgc = <<MAX_WGS_PER_DIM, 2, 1>>

\* C2: every component of the grid calculate_dispatch returns is at most
\* the per-dimension limit MAX_WGS_PER_DIM, for every element count.
C2_GridWithinLimit ==
    wgc # <<>> => \A i \in 1..3 : wgc[i] <= MAX_WGS_PER_DIM

\* C3: over the grid calculate_dispatch produced for N elements, with 64
\* invocations per workgroup, no invocation with a flat index >= N goes on
\* to write, no two invocations share a flat index below N, and once every
\* workgroup has run each of 0..N-1 is the flat index of exactly one
\* invocation.
C3_FlatIndexBijection ==
    wgc # <<>> =>
        LET offsets == {e[1] : e \in writes}
        IN  /\ \A e \in writes : e[1] >= 0 /\ e[1] < dst_numel
            /\ Cardinality(offsets) = Cardinality(writes)
            /\ ran = Grid(wgc) => offsets = 0..(dst_numel - 1)

\* Every workgroup of a folded grid that provides more invocations than
\* there are elements has run.
C3_Witness ==
    /\ wgc # <<>>
    /\ wgc[2] > 1
    /\ ran = Grid(wgc)
    /\ wgc[1] * wgc[2] * 64 > dst_numel
    /\ Cardinality(writes) = dst_numel

(***************************************************************************)
(* Claims about dispatch_operations, checked under SpecExec.               *)
(***************************************************************************)
CountCmd(l, c) == Cardinality({p \in 1..Len(l) : l[p].cmd = c})

DispatchesOf(l) == SelectSeq(l, LAMBDA e : e.cmd = "dispatch_workgroups")

\* The positions in l of its dispatch_workgroups entries.
DispatchPositions(l) == {p \in 1..Len(l) : l[p].cmd = "dispatch_workgroups"}

\* The logs there are: of the calls that returned and of the running call.
Logs == {returned[c] : c \in 1..Len(returned)} \cup {log}

\* C4: a call of dispatch_operations on an Executable of N steps (N >= 0)
\* opens one command encoder and one compute pass, records exactly N
\* dispatch_workgroups calls, the i-th with the i-th step's workgroup counts,
\* and calls queue.submit exactly once, with the single command buffer that
\* holds those dispatches.
C4_OneSubmissionOfNDispatches ==
    \A c \in 1..Len(returned) :
        LET l == returned[c]
            last == l[Len(l)]
        IN  /\ CountCmd(l, "create_command_encoder") = 1
            /\ CountCmd(l, "begin_compute_pass") = 1
            /\ CountCmd(l, "submit") = 1
            /\ Len(DispatchesOf(l)) = Len(exe.steps)
            /\ \A i \in 1..Len(exe.steps) :
                   DispatchesOf(l)[i].count = exe.steps[i].workgroup_count
            /\ last.cmd = "submit"
            /\ Len(last.buffers) = 1
            /\ DispatchesOf(last.buffers[1]) = DispatchesOf(l)

\* A call on an Executable of two steps with different workgroup counts has
\* returned.
C4_Witness ==
    /\ Len(returned) >= 1
    /\ Len(exe.steps) = 2
    /\ exe.steps[1].workgroup_count # exe.steps[2].workgroup_count
    /\ Len(DispatchesOf(returned[1])) = 2

\* C5: when a step with k storage bind groups is dispatched, the pipeline
\* bound is that step's, bind group index j < k holds the step's j-th
\* storage group, index k holds the shared uniform group with the step's own
\* offset, and each of these bindings was made after the previous dispatch.
C5_BindingsAtDispatch ==
    \A l \in Logs : \A p \in DispatchPositions(l) :
        LET i == Cardinality({q \in DispatchPositions(l) : q <= p})
            prev == {q \in DispatchPositions(l) : q < p}
            since == {q \in 1..(p - 1) : \A r \in prev : r < q}
            step == exe.steps[i]
            k == Len(step.storage_groups)
            pipeline == pipeline_resources_get(step.pipeline_handle)
            bound == l[p].bound
            Holds(j, group, offsets) ==
                /\ j \in DOMAIN bound.bind_groups
                /\ bound.bind_groups[j] = [group |-> group, offsets |-> offsets]
                /\ \E q \in since :
                       l[q] = [cmd |-> "set_bind_group", index |-> j,
                               group |-> group, offsets |-> offsets]
        IN  /\ i <= Len(exe.steps)
            /\ bound.pipeline = pipeline
            /\ \E q \in since : l[q] = [cmd |-> "set_pipeline", pipeline |-> pipeline]
            /\ \A j \in 0..(k - 1) : Holds(j, step.storage_groups[j + 1], <<>>)
            /\ Holds(k, exe.uniform_group, <<step.offset>>)

\* The second step, of one storage group, has been dispatched after a first
\* step of two: the pass still holds the first step's binding at index 2.
C5_Witness ==
    /\ Len(exe.steps) = 2
    /\ Len(exe.steps[1].storage_groups) = 2
    /\ Len(exe.steps[2].storage_groups) = 1
    /\ exe.steps[1].pipeline_handle # exe.steps[2].pipeline_handle
    /\ Len(DispatchesOf(log)) = 2
    /\ DOMAIN DispatchesOf(log)[2].bound.bind_groups = {0, 1, 2}

(***************************************************************************)
(* Claims about the concat operation, checked under SpecConcat.            *)
(***************************************************************************)
\* The multi-index of flat offset d in the contiguous layout of a shape.
Unravel(d, shape) ==
    [j \in 1..Len(shape) |->
        (d \div numel(SubSeq(shape, j + 1, Len(shape)))) % shape[j]]

\* The flat offset of a multi-index in the contiguous layout of a shape.
RECURSIVE Ravel(_, _)
Ravel(index, shape) ==
    IF index = <<>> THEN 0
    ELSE index[1] * numel(Tail(shape)) + Ravel(Tail(index), Tail(shape))

RECURSIVE SeqSum(_)
SeqSum(q) == IF q = <<>> THEN 0 ELSE q[1] + SeqSum(Tail(q))

\* The sizes of the inputs along the concat axis.
AxisSizes(o) == [k \in DOMAIN o.inputs |-> o.inputs[k].shape[o.dim + 1]]

\* The element the claim names for destination offset d: of the input k
\* whose bucket cum[k-1] <= i < cum[k] holds the index i along the axis, at
\* index i - cum[k-1] along the axis and the same indices elsewhere.
ExpectedElement(o, dst_shape, d) ==
    LET index == Unravel(d, dst_shape)
        i == index[o.dim + 1]
        sizes == AxisSizes(o)
        cumulative(c) == SeqSum(SubSeq(sizes, 1, c))
        k == CHOOSE b \in DOMAIN o.inputs : cumulative(b - 1) <= i /\ i < cumulative(b)
        source_index == [j \in DOMAIN index |->
                            IF j = o.dim + 1 THEN i - cumulative(k - 1) ELSE index[j]]
    IN  [src |-> k - 1, at |-> Ravel(source_index, o.inputs[k].shape)]

\* C6: after the whole kernel body has run for an invocation, the
\* destination element it owns holds the element of the input whose
\* cumulative bucket contains its index along the axis, read at that index
\* less the sizes of the inputs before it.
C6_DestinationHoldsBucketElement ==
    (phase = "ran" /\ inv.dst_offset # Returned) =>
        inv.y = ExpectedElement(op, view.shape, inv.dst_offset)

\* C7: compute_view returns the first input's shape with the size along the
\* axis replaced by the sum of all inputs' sizes along it, the first input's
\* dtype, and the contiguous strides of that shape; the sizes 50, 13, 77,
\* 55, 11 over [4,2,_,128] give [4,2,206,128].
C7_ComputeView ==
    phase \in {"viewed", "packed", "planned", "compiled", "ran"} =>
        LET first == op.inputs[1]
            r == Len(first.shape)
        IN  /\ Len(view.shape) = r
            /\ \A j \in 1..r :
                   view.shape[j] = IF j = op.dim + 1 THEN SeqSum(AxisSizes(op))
                                   ELSE first.shape[j]
            /\ view.dt = first.dt
            /\ Len(view.strides) = r
            /\ view.strides[r] = 1
            /\ \A j \in 1..(r - 1) :
                   view.strides[j] = view.strides[j + 1] * view.shape[j + 1]
            /\ op = TestConcatOp => view.shape = <<4, 2, 206, 128>>

\* The view of the test's five tensors has been computed.
C7_Witness ==
    /\ phase = "viewed"
    /\ op = TestConcatOp
    /\ view.shape = <<4, 2, 206, 128>>
    /\ view.strides = <<52736, 26368, 128, 1>>

\* C8: compiling a concat whose inputs violate an invariant fails with an
\* InvariantError returned to the caller.
C8_InvariantErrorReturned ==
    (phase # "new" /\ ~(check_shapes(op) /\ check_dtypes(op))) =>
        result = "InvariantError"

(***************************************************************************)
(* Claims about the kernel cache key, checked under SpecKey.               *)
(***************************************************************************)
\* C9: two concat requests have equal kernel keys if and only if
\* build_kernel generates the same source for them; requests that differ
\* only in dtype do not share a key.
C9_KeyEqualIffSameSource ==
    Len(built) = 2 =>
        ((built[1].key = built[2].key) <=> (built[1].source = built[2].source))

(***************************************************************************)
(* Claims about the metadata packer, checked under SpecUniform.            *)
(***************************************************************************)
\* C10: every offset write_metadata returns is a multiple of UNIFORM_ALIGN,
\* is greater than every offset returned before on the same packer, and is
\* the byte position of the first member the call wrote; the members of the
\* call lie within the slot that starts there and those of earlier calls
\* end before it.
C10_OffsetsAlignedIncreasing ==
    [][Len(meta_offsets') = Len(meta_offsets) + 1 =>
        LET offset == meta_offsets'[Len(meta_offsets')]
            before == Len(uniform.members)
            after == Len(uniform'.members)
        IN  /\ offset % UNIFORM_ALIGN = 0
            /\ \A j \in DOMAIN meta_offsets : meta_offsets[j] < offset
            /\ after > before
            /\ uniform'.members[before + 1].at = offset
            /\ \A m \in (before + 1)..after :
                   /\ uniform'.members[m].at >= offset
                   /\ uniform'.members[m].at + uniform'.members[m].size
                          <= offset + UNIFORM_ALIGN
            /\ \A m \in 1..before :
                   uniform.members[m].at + uniform.members[m].size <= offset
    ]_vars

\* Two concats, the second of 8 inputs, have packed their metadata: the
\* second slot starts one UNIFORM_ALIGN after the first.
C10_Witness ==
    /\ phase = "packing"
    /\ Len(meta_offsets) = 2
    /\ meta_offsets[2] = meta_offsets[1] + UNIFORM_ALIGN
    /\ Len(op.inputs) = 8
    /\ uniform.cursor = 2 * UNIFORM_ALIGN

(***************************************************************************)
(* Claims about failing metadata writes, checked under SpecUniformFault.   *)
(***************************************************************************)
\* C11: when a member write of an op fails, write_metadata returns a
\* UniformError (the error is not discarded); and every member an op wrote
\* lies within the UNIFORM_ALIGN slot of an offset that was returned or of
\* the call that failed.
C11_MemberWriteErrorReturned ==
    /\ (phase = "packing" /\ fault # {}) => result = "UniformError"
    /\ \A m \in DOMAIN uniform.members :
           (uniform.members[m].at % UNIFORM_ALIGN) + uniform.members[m].size
               <= UNIFORM_ALIGN

(***************************************************************************)
(* Claims about the pipeline cache, checked under SpecPool.                *)
(***************************************************************************)
\* The pipelines built for a key.
BuiltFor(key) == {h \in DOMAIN pipelines : pipelines[h].key = key}

\* C12: in no interleaving of concurrent requests are two pipelines built
\* for one key; once a request on a key has its handle, exactly one
\* pipeline has been built for the key, and every request on that key that
\* has its handle has that same one.
C12_OnePipelinePerKey ==
    /\ \A key \in PoolKeys : Cardinality(BuiltFor(key)) <= 1
    /\ \A t \in DOMAIN requests :
           requests[t].pc \in {"resolved", "bound", "panic"} =>
               /\ BuiltFor(requests[t].key) = {requests[t].handle}
               /\ requests[t].pc # "panic"

\* All the requests ask for one key and all have bound its pipeline, which
\* the second of them built.
C12_Witness ==
    /\ \A t \in DOMAIN requests : requests[t].pc = "bound" /\ requests[t].key = 1
    /\ Len(pipelines) = 1
    /\ pipelines[1].by = 2

(***************************************************************************)
(* Claims about kernel generation, checked under SpecConcat.               *)
(***************************************************************************)
\* build_kernel has been called for the concat being compiled.
BuildKernelCalled ==
    \/ phase \in {"compiled", "ran"}
    \/ phase = "failed" /\ guards(op) = "Ok"

\* C13: build_kernel returns a kernel when the destination's dtype is F32
\* or F16 (with any of the kernel elements), and otherwise an
\* Err(CompileError) that names the dtype and the kernel element; it never
\* panics.
C13_BuildKernelTotal ==
    BuildKernelCalled =>
        IF view.dt \in {"F32", "F16"}
        THEN kernel.tag = "Ok"
        ELSE /\ kernel.tag = "CompileError"
             /\ kernel.dt = view.dt
             /\ kernel.ke = kernel_element(view)

(***************************************************************************)
(* Claims about LazyOp, checked under SpecLazy.                            *)
(***************************************************************************)
\* C14: srcs and supports_inplace of a LazyOp holding a Binary, Matmul or
\* Softmax return what the held op returns; on Empty and Const they abort
\* and return nothing.
C14_LazyOpDelegates ==
    called.method # "none" =>
        IF node.variant \in {"Binary", "Matmul", "Softmax"}
        THEN /\ called.tag = "Ok"
             /\ called.method = "srcs" => called.value = node.held.srcs
             /\ called.method = "supports_inplace" =>
                    called.value = node.held.supports_inplace
        ELSE /\ node.variant \in {"Empty", "Const"}
             /\ called.tag = "unimplemented"

\* srcs has been called on a Softmax of two sources.
C14_Witness ==
    /\ node.variant = "Softmax"
    /\ Len(node.held.srcs) = 2
    /\ called.method = "srcs"
    /\ called.tag = "Ok"
    /\ called.value = node.held.srcs

\* C15: the kernel generated for a concat of n inputs declares n read-only
\* source bindings X0..X(n-1), one destination binding and one uniform
\* binding, the same storage bindings as storage_bind_group_layout declares.
C15_KernelBindingsMatchLayout ==
    phase \in {"compiled", "ran"} =>
        LET n == Len(op.inputs)
            declared == kernel.storage
            sources == {i \in DOMAIN declared : declared[i].mode = "ReadOnly"}
            layout == storage_bind_group_layout(op, TRUE)
        IN  /\ sources = 1..n
            /\ \A i \in sources : declared[i].name = <<"X", i - 1>>
            /\ Cardinality(DOMAIN declared \ sources) = 1
            /\ kernel.uniform = 1
            /\ Len(declared) = Len(layout)
            /\ \A i \in DOMAIN declared \cap DOMAIN layout :
                   (declared[i].mode = "ReadOnly") = layout[i].read_only

(***************************************************************************)
(* Claims about repeated dispatch, checked under SpecExec.                 *)
(***************************************************************************)
\* C16: no step of dispatch_operations changes the Executable (its steps,
\* their offsets and workgroup counts, its uniform bind group); every call
\* that has returned recorded the same commands as the first one did, and
\* submitted once.
C16_DispatchLeavesExecutable ==
    /\ [][exe' = exe]_vars
    /\ [](\A c \in 1..Len(returned) :
              /\ returned[c] = returned[1]
              /\ CountCmd(returned[c], "submit") = 1)

\* dispatch_operations has returned twice on an Executable of two steps.
C16_Witness ==
    /\ Len(returned) = 2
    /\ Len(exe.steps) = 2
    /\ pc = "idle"
    /\ Len(DispatchesOf(returned[2])) = 2

(***************************************************************************)
(* Claims about the packed metadata, checked under SpecConcat.             *)
(***************************************************************************)
\* The metadata struct of the concat being compiled, as its kernel reads it.
PackedMeta == ReadMeta(uniform, meta_offsets[Len(meta_offsets)], Len(op.inputs))

\* C17: for a concat that passed its guards, of n inputs of rank r along
\* axis d, the metadata holds the axis d + (4 - r), cum(k) is the sum of the
\* first k + 1 inputs' sizes along the axis, the cum are non-decreasing, and
\* cum(n-1) is the size along the axis of the shape compute_view returned.
C17_MetadataCumulativeSums ==
    phase \in {"packed", "planned", "compiled", "ran"} =>
        LET n == Len(op.inputs)
            r == Len(op.inputs[1].shape)
            meta == PackedMeta
        IN  /\ meta.dim = op.dim + (4 - r)
            /\ \A k \in 1..n : meta.cum[k] = SeqSum(SubSeq(AxisSizes(op), 1, k))
            /\ \A k \in 1..(n - 1) : meta.cum[k] <= meta.cum[k + 1]
            /\ meta.cum[n] = view.shape[op.dim + 1]

\* The metadata of three inputs of rank 3 joined along their last axis has
\* been packed: the axis is promoted from 2 to 3.
C17_Witness ==
    /\ phase = "packed"
    /\ Len(op.inputs) = 3
    /\ Len(op.inputs[1].shape) = 3
    /\ op.dim = 2
    /\ PackedMeta.dim = 3
    /\ PackedMeta.cum[3] = 3
    /\ view.shape[3] = 3

(***************************************************************************)
(* Claims about GroupNorm, checked under SpecNorm.                         *)
(***************************************************************************)
\* C18: the guards of a GroupNorm pass exactly when its input has rank at
\* least 3, num_groups divides the size of the input's dimension 1, and the
\* input, the scale and the bias, if there is one, are F32; the view
\* compute_view returns is the input's: its shape, dtype and strides.
C18_GroupNormGuardsAndView ==
    /\ gn_guards # "" =>
           (gn_guards = "Ok" <=>
               /\ Len(gn.input.shape) >= 3
               /\ \E q \in 1..gn.input.shape[2] : q * gn.num_groups = gn.input.shape[2]
               /\ gn.input.dt = "F32"
               /\ gn.scale.dt = "F32"
               /\ gn.bias.present => gn.bias.dt = "F32")
    /\ gn_view.dt # "" =>
           /\ gn_view.shape = gn.input.shape
           /\ gn_view.dt = gn.input.dt
           /\ gn_view.strides = gn.input.strides

\* The view of a GroupNorm with a bias, two groups over two channels and an
\* input that is not contiguous has been computed.
C18_Witness ==
    /\ gn_guards = "Ok"
    /\ gn.bias.present
    /\ gn.num_groups = 2
    /\ gn.input.shape = <<1, 2, 2>>
    /\ gn.input.strides = <<1, 2, 4>>
    /\ gn_view = gn.input

====
